---- MODULE Spec2Model ----
(***************************************************************************)
(* HabitStore (kvnw-agent/streakr): an in-memory Map<string, Habit>        *)
(* mirrored to one JSON file by write-temp-then-rename.                    *)
(*                                                                         *)
(* A Habit is a function from its present keys to their values (a JS       *)
(* object).  The Map is a sequence of Habits with pairwise distinct ids,   *)
(* in insertion order.  A file is a sequence of tokens; a write may stop   *)
(* after any prefix of them.                                               *)
(*                                                                         *)
(* Scope of the inputs: values of the declared field types (types.ts);     *)
(* every array a caller passes is an object of its own (no array shared    *)
(* between two records).                                                   *)
(***************************************************************************)
EXTENDS Naturals, Sequences, FiniteSets, TLC

VARIABLES habits, target, tmp, dir, calls, store, issued

vars == <<habits, target, tmp, dir, calls, store, issued>>

(***************************************************************************)
(* Bounds of the model.                                                    *)
(***************************************************************************)
MaxHabits == 2      \* records held at once
MaxUuid == 1        \* identifiers randomUUID hands out in one run
MaxCalls == 2       \* call slots (calls in flight at once)

(***************************************************************************)
(* Input values.                                                           *)
(***************************************************************************)
Undefined == "<undefined>"
CallerIds == {"a"}
Uuid(n) == <<"u1", "u2", "u3", "u4">>[n]
Frequencies == {"daily", "weekly", "custom"}
Dates == {"d1"}
Now == "t1"
OtherTime == "t0"

Calls == 1..MaxCalls
IssuedIds == {Uuid(n) : n \in 1..issued}
KnownIds == CallerIds \cup IssuedIds

Has(o, k) == k \in DOMAIN o
\* o.k as JavaScript reads it: undefined when the key is absent
Get(o, k) == IF Has(o, k) THEN o[k] ELSE Undefined
\* only an optional string field can hold undefined (types.ts:4)
IsUndefined(o, k) == k = "description" /\ o[k] = Undefined

(***************************************************************************)
(* Map<string, Habit>                                                      *)
(***************************************************************************)
MapIds(m) == {m[i].id : i \in 1..Len(m)}
MapHas(m, id) == id \in MapIds(m)
MapIndex(m, id) == CHOOSE i \in 1..Len(m) : m[i].id = id
MapGet(m, id) == m[MapIndex(m, id)]
\* a set that moves the key to the end, as delete followed by set does
MapSetMovesLast(m, h) == Append(SelectSeq(m, LAMBDA g : g.id # h.id), h)
\* Map.set keeps the position of a key already present, appends a new one
MapSet(m, h) ==
    IF MapHas(m, h.id)
    THEN [m EXCEPT ![MapIndex(m, h.id)] = h]
    ELSE Append(m, h)
MapDelete(m, id) == SelectSeq(m, LAMBDA h : h.id # id)
MapValues(m) == m

RECURSIVE MapFrom(_)
\* new Map(entries.map(h => [h.id, h]))
MapFrom(hs) ==
    IF hs = <<>> THEN <<>>
    ELSE MapSet(MapFrom(SubSeq(hs, 1, Len(hs) - 1)), hs[Len(hs)])

(***************************************************************************)
(* JSON                                                                    *)
(***************************************************************************)
Open == [t |-> "{\"habits\":["]
Close == [t |-> "]}"]
Tok(h) == [t |-> "habit", v |-> h]
\* JSON.stringify leaves out the keys whose value is undefined
StringifyHabit(h) == [k \in {k \in DOMAIN h : ~IsUndefined(h, k)} |-> h[k]]
Stringify(hs) ==
    <<Open>> \o [i \in 1..Len(hs) |-> Tok(StringifyHabit(hs[i]))] \o <<Close>>
IsDocument(text) ==
    /\ Len(text) >= 2
    /\ text[1] = Open
    /\ text[Len(text)] = Close
    /\ \A i \in 2..(Len(text) - 1) : text[i].t = "habit"
ParseHabits(text) == [i \in 1..(Len(text) - 2) |-> text[i + 1].v]

\* the values JSON.parse can return
JsonNull == [kind |-> "null"]
JsonNumber == [kind |-> "number"]
JsonString == [kind |-> "string"]
JsonArray(items) == [kind |-> "array", items |-> items]
JsonObject(props) == [kind |-> "object", props |-> props]
JsUndefined == [kind |-> "undefined"]
\* the text of a JSON value other than a document of habits
JsonText(v) == <<[t |-> "value", v |-> v]>>
\* JSON.parse(raw): a SyntaxError for anything that is not one whole value
JsonParse(text) ==
    IF IsDocument(text)
    THEN [ok |-> TRUE, v |-> JsonObject([habits |-> JsonArray(ParseHabits(text))])]
    ELSE IF Len(text) = 1 /\ text[1].t = "value"
    THEN [ok |-> TRUE, v |-> text[1].v]
    ELSE [ok |-> FALSE]
\* v.k for a value that is neither null nor undefined
Property(v, k) ==
    IF v.kind = "object" /\ k \in DOMAIN v.props THEN v.props[k] ELSE JsUndefined
IsArray(v) == v.kind = "array"

(***************************************************************************)
(* Files                                                                   *)
(***************************************************************************)
NoFile == [exists |-> FALSE, data |-> <<>>]
File(text) == [exists |-> TRUE, data |-> text]

Hole == [t |-> "\\0"]
\* write(fd, text, pos): the bytes land at the descriptor's own offset; a gap
\* left by another writer's truncation reads as zero bytes
WriteAt(data, pos, text) ==
    [i \in 1..(IF Len(data) > pos + Len(text) THEN Len(data) ELSE pos + Len(text)) |->
        IF i > pos /\ i <= pos + Len(text) THEN text[i - pos]
        ELSE IF i <= Len(data) THEN data[i]
        ELSE Hole]

(***************************************************************************)
(* Results of a call                                                       *)
(***************************************************************************)
RetHabit(h) == [kind |-> "habit", v |-> h]
RetList(hs) == [kind |-> "list", v |-> hs]
RetBool(b) == [kind |-> "boolean", v |-> b]
RetVoid == [kind |-> "void"]
RetUndefined == [kind |-> "undefined"]
Thrown(msg) == [kind |-> "error", msg |-> msg]
NotFound(id) == Thrown(<<"Habit not found: ", id>>)

Idle == [pc |-> "idle"]
IsIdle(c) == calls[c].pc = "idle"
\* the caller awaits every call: a call is issued when none is in flight
Awaited == \A c \in Calls : IsIdle(c)
FreeSlot(c) == IsIdle(c) /\ \A d \in Calls : d < c => ~IsIdle(d)

\* a call that finished without reaching save()
Settled(op, args, local, ret) ==
    [pc |-> "done", op |-> op, args |-> args, local |-> local, ret |-> ret,
     saved |-> FALSE, json |-> <<>>, pos |-> 0, fd |-> "none"]
\* a save that serializes the mapping as it was before the mutation
SavingStale(op, args, local, ret, m) ==
    [pc |-> "mkdir", op |-> op, args |-> args, local |-> local, ret |-> ret,
     saved |-> TRUE, json |-> Stringify(MapValues(habits)), pos |-> 0, fd |-> "none"]
\* save() up to its first await: the snapshot is serialized at once, mkdir is
\* requested
Saving(op, args, local, ret, m) ==
    [pc |-> "mkdir", op |-> op, args |-> args, local |-> local, ret |-> ret,
     saved |-> TRUE, json |-> Stringify(MapValues(m)), pos |-> 0, fd |-> "none"]
NoLocal == [none |-> TRUE]

(***************************************************************************)
(* The operations, each up to its first await                              *)
(***************************************************************************)
\* a generator that is not one: every record without an id gets the same one
NewHabitSameId(attrs, uuid) ==
    (IF Get(attrs, "description") # Undefined
     THEN [description |-> attrs.description] ELSE <<>>)
    @@ [id |-> IF Has(attrs, "id") THEN attrs.id ELSE "a",
        name |-> attrs.name,
        frequency |-> attrs.frequency,
        completions |-> IF Has(attrs, "completions") THEN attrs.completions ELSE <<>>,
        createdAt |-> IF Has(attrs, "createdAt") THEN attrs.createdAt ELSE Now]

\* the Habit addHabit builds from attrs, uuid being the value of randomUUID()
NewHabit(attrs, uuid) ==
    (IF Get(attrs, "description") # Undefined
     THEN [description |-> attrs.description] ELSE <<>>)
    @@ [id |-> IF Has(attrs, "id") THEN attrs.id ELSE uuid,
        name |-> attrs.name,
        frequency |-> attrs.frequency,
        completions |-> IF Has(attrs, "completions") THEN attrs.completions ELSE <<>>,
        createdAt |-> IF Has(attrs, "createdAt") THEN attrs.createdAt ELSE Now]

\* the spread written the other way round: { ...patch, ...existing, id }
UpdatedPatchFirst(existing, patch, id) == [id |-> id] @@ existing @@ patch
\* { ...existing, ...patch, id }
Updated(existing, patch, id) == [id |-> id] @@ patch @@ existing

Includes(s, x) == \E i \in 1..Len(s) : s[i] = x
Pushed(h, date) == [h EXCEPT !.completions = Append(@, date)]

Ready == store.pc = "ready"

\* an add that leaves alone a record already stored under the id
AddHabitKeepsExisting(c, attrs) ==
    /\ Ready /\ FreeSlot(c)
    /\ Has(attrs, "id") \/ issued < MaxUuid
    /\ LET uuid == Uuid(issued + 1)
           habit == NewHabit(attrs, uuid)
       IN /\ MapHas(habits, habit.id) \/ Len(habits) < MaxHabits
          /\ habits' = IF MapHas(habits, habit.id) THEN habits ELSE MapSet(habits, habit)
          /\ issued' = IF Has(attrs, "id") THEN issued ELSE issued + 1
          /\ calls' = [calls EXCEPT ![c] =
                 Saving("addHabit", attrs, NoLocal, RetHabit(habit), habits')]
    /\ UNCHANGED <<target, tmp, dir, store>>

AddHabit(c, attrs) ==
    /\ Ready /\ FreeSlot(c)
    /\ Has(attrs, "id") \/ issued < MaxUuid
    /\ LET uuid == Uuid(issued + 1)
           habit == NewHabit(attrs, uuid)
       IN /\ MapHas(habits, habit.id) \/ Len(habits) < MaxHabits
          /\ habits' = MapSet(habits, habit)
          /\ issued' = IF Has(attrs, "id") THEN issued ELSE issued + 1
          /\ calls' = [calls EXCEPT ![c] =
                 Saving("addHabit", attrs, NoLocal, RetHabit(habit), habits')]
    /\ UNCHANGED <<target, tmp, dir, store>>

GetHabit(c, id) ==
    /\ Ready /\ FreeSlot(c)
    /\ calls' = [calls EXCEPT ![c] =
           Settled("getHabit", [id |-> id], NoLocal,
                   IF MapHas(habits, id) THEN RetHabit(MapGet(habits, id))
                   ELSE RetUndefined)]
    /\ UNCHANGED <<habits, target, tmp, dir, store, issued>>

GetAllHabits(c) ==
    /\ Ready /\ FreeSlot(c)
    /\ calls' = [calls EXCEPT ![c] =
           Settled("getAllHabits", <<>>, NoLocal, RetList(MapValues(habits)))]
    /\ UNCHANGED <<habits, target, tmp, dir, store, issued>>

\* the lookup done after the save was started
UpdateHabitLateCheck(c, id, patch) ==
    /\ Ready /\ FreeSlot(c)
    /\ LET args == [id |-> id, patch |-> patch]
       IN IF ~MapHas(habits, id)
          THEN /\ calls' = [calls EXCEPT ![c] =
                      Saving("updateHabit", args, NoLocal, NotFound(id), habits)]
               /\ UNCHANGED habits
          ELSE LET existing == MapGet(habits, id)
                   updated == Updated(existing, patch, id)
               IN /\ habits' = MapSet(habits, updated)
                  /\ calls' = [calls EXCEPT ![c] =
                         Saving("updateHabit", args, [existing |-> existing],
                                RetHabit(updated), habits')]
    /\ UNCHANGED <<target, tmp, dir, store, issued>>

UpdateHabit(c, id, patch) ==
    /\ Ready /\ FreeSlot(c)
    /\ LET args == [id |-> id, patch |-> patch]
       IN IF ~MapHas(habits, id)
          THEN /\ calls' = [calls EXCEPT ![c] =
                      Settled("updateHabit", args, NoLocal, NotFound(id))]
               /\ UNCHANGED habits
          ELSE LET existing == MapGet(habits, id)
                   updated == Updated(existing, patch, id)
               IN /\ habits' = MapSet(habits, updated)
                  /\ calls' = [calls EXCEPT ![c] =
                         Saving("updateHabit", args, [existing |-> existing],
                                RetHabit(updated), habits')]
    /\ UNCHANGED <<target, tmp, dir, store, issued>>

\* the record removed from memory alone
DeleteHabitUnsaved(c, id) ==
    /\ Ready /\ FreeSlot(c)
    /\ IF ~MapHas(habits, id)
       THEN /\ calls' = [calls EXCEPT ![c] =
                   Settled("deleteHabit", [id |-> id], NoLocal, RetBool(FALSE))]
            /\ UNCHANGED habits
       ELSE /\ habits' = MapDelete(habits, id)
            /\ calls' = [calls EXCEPT ![c] =
                   Settled("deleteHabit", [id |-> id], NoLocal, RetBool(TRUE))]
    /\ UNCHANGED <<target, tmp, dir, store, issued>>

DeleteHabit(c, id) ==
    /\ Ready /\ FreeSlot(c)
    /\ IF ~MapHas(habits, id)
       THEN /\ calls' = [calls EXCEPT ![c] =
                   Settled("deleteHabit", [id |-> id], NoLocal, RetBool(FALSE))]
            /\ UNCHANGED habits
       ELSE /\ habits' = MapDelete(habits, id)
            /\ calls' = [calls EXCEPT ![c] =
                   Saving("deleteHabit", [id |-> id], NoLocal, RetBool(TRUE), habits')]
    /\ UNCHANGED <<target, tmp, dir, store, issued>>

\* the save moved out of the if: every call for a known id saves
LogCompletionAlwaysSaves(c, id, date) ==
    /\ Ready /\ FreeSlot(c)
    /\ LET args == [id |-> id, date |-> date]
       IN IF ~MapHas(habits, id)
          THEN /\ calls' = [calls EXCEPT ![c] =
                      Settled("logCompletion", args, NoLocal, NotFound(id))]
               /\ UNCHANGED habits
          ELSE LET habit == MapGet(habits, id)
               IN /\ habits' = IF Includes(habit.completions, date) THEN habits
                                ELSE MapSet(habits, Pushed(habit, date))
                  /\ calls' = [calls EXCEPT ![c] =
                         Saving("logCompletion", args, NoLocal, RetVoid, habits')]
    /\ UNCHANGED <<target, tmp, dir, store, issued>>

LogCompletion(c, id, date) ==
    /\ Ready /\ FreeSlot(c)
    /\ LET args == [id |-> id, date |-> date]
       IN IF ~MapHas(habits, id)
          THEN /\ calls' = [calls EXCEPT ![c] =
                      Settled("logCompletion", args, NoLocal, NotFound(id))]
               /\ UNCHANGED habits
          ELSE LET habit == MapGet(habits, id)
               IN IF ~Includes(habit.completions, date)
                  THEN /\ habits' = MapSet(habits, Pushed(habit, date))
                       /\ calls' = [calls EXCEPT ![c] =
                              Saving("logCompletion", args, NoLocal, RetVoid, habits')]
                  ELSE /\ calls' = [calls EXCEPT ![c] =
                              Settled("logCompletion", args, NoLocal, RetVoid)]
                       /\ UNCHANGED habits
    /\ UNCHANGED <<target, tmp, dir, store, issued>>

(***************************************************************************)
(* save(), after its first await                                           *)
(***************************************************************************)
Mkdir(c) ==
    /\ calls[c].pc = "mkdir"
    /\ dir' = TRUE
    /\ calls' = [calls EXCEPT ![c].pc = "open"]
    /\ UNCHANGED <<habits, target, tmp, store, issued>>

\* a save that writes the document in place, at the target path
OpenInPlace(c) ==
    /\ calls[c].pc = "open"
    /\ target' = File(<<>>)
    /\ calls' = [calls EXCEPT ![c].pc = "write", ![c].fd = "target", ![c].pos = 0]
    /\ UNCHANGED <<habits, tmp, dir, store, issued>>

\* writeFile opens the temp path with flag "w": created, or truncated in place
OpenTmp(c) ==
    /\ calls[c].pc = "open"
    /\ tmp' = File(<<>>)
    /\ calls' = [calls EXCEPT ![c].pc = "write", ![c].fd = "tmp", ![c].pos = 0]
    /\ UNCHANGED <<habits, target, dir, store, issued>>

\* one write(2) of writeFile's loop: it may be short; the last one closes
WriteTmp(c) ==
    /\ calls[c].pc = "write"
    /\ \E k \in 1..(Len(calls[c].json) - calls[c].pos) :
         LET pos == calls[c].pos
             text == SubSeq(calls[c].json, pos + 1, pos + k)
         IN /\ tmp' = IF calls[c].fd = "tmp"
                      THEN File(WriteAt(tmp.data, pos, text)) ELSE tmp
            /\ target' = IF calls[c].fd = "target"
                         THEN File(WriteAt(target.data, pos, text)) ELSE target
            /\ calls' = [calls EXCEPT
                   ![c].pos = pos + k,
                   ![c].pc = IF pos + k = Len(calls[c].json) THEN "rename" ELSE "write",
                   ![c].fd = IF pos + k = Len(calls[c].json) THEN "none" ELSE @]
    /\ UNCHANGED <<habits, dir, store, issued>>

\* rename(2) moves the file; a descriptor open on it follows the file, one open
\* on the replaced target keeps an unlinked file
Renamed(fd) ==
    IF fd = "tmp" THEN "target" ELSE IF fd = "target" THEN "gone" ELSE fd

\* a save that copies the temp file onto the target and leaves it in place
RenameCopies(c) ==
    /\ calls[c].pc = "rename"
    /\ IF tmp.exists
       THEN /\ target' = tmp
            /\ calls' = [calls EXCEPT ![c].pc = "done"]
       ELSE /\ calls' = [calls EXCEPT ![c].pc = "done",
                                      ![c].ret = Thrown(<<"ENOENT">>)]
            /\ UNCHANGED target
    /\ UNCHANGED <<habits, tmp, dir, store, issued>>

\* an operation that works on a copy of the mapping and installs the copy
\* when its save has returned
RenameThenInstall(c) ==
    /\ calls[c].pc = "rename"
    /\ tmp.exists
    /\ target' = tmp
    /\ tmp' = NoFile
    /\ habits' = MapFrom(ParseHabits(calls[c].json))
    /\ calls' = [d \in Calls |->
           IF d = c THEN [calls[c] EXCEPT !.pc = "done"]
           ELSE IF IsIdle(d) THEN calls[d]
           ELSE [calls[d] EXCEPT !.fd = Renamed(@)]]
    /\ UNCHANGED <<dir, store, issued>>

Rename(c) ==
    /\ calls[c].pc = "rename"
    /\ IF tmp.exists
       THEN /\ target' = tmp
            /\ tmp' = NoFile
            /\ calls' = [d \in Calls |->
                   IF d = c THEN [calls[c] EXCEPT !.pc = "done"]
                   ELSE IF IsIdle(d) THEN calls[d]
                   ELSE [calls[d] EXCEPT !.fd = Renamed(@)]]
       ELSE /\ calls' = [calls EXCEPT ![c].pc = "done",
                                      ![c].ret = Thrown(<<"ENOENT">>)]
            /\ UNCHANGED <<target, tmp>>
    /\ UNCHANGED <<habits, dir, store, issued>>

\* the caller receives the result
Return(c) ==
    /\ calls[c].pc = "done"
    /\ calls' = [calls EXCEPT ![c] = Idle]
    /\ UNCHANGED <<habits, target, tmp, dir, store, issued>>

(***************************************************************************)
(* save() when the file system refuses a step: the rejected promise is not *)
(* caught, so the operation rejects with the same error                    *)
(***************************************************************************)
StorageError(code) == Thrown(<<code>>)
\* the error each step of save() fails with in this model
ErrorOf(pc) ==
    IF pc = "mkdir" THEN StorageError("EACCES")
    ELSE IF pc = "open" THEN StorageError("EROFS")
    ELSE IF pc = "write" THEN StorageError("ENOSPC")
    ELSE StorageError("EPERM")

MkdirFails(c) ==
    /\ calls[c].pc = "mkdir"
    /\ calls' = [calls EXCEPT ![c].pc = "done", ![c].ret = ErrorOf("mkdir")]
    /\ UNCHANGED <<habits, target, tmp, dir, store, issued>>

\* writeFile fails in its open: the temp path is left as it was
OpenFails(c) ==
    /\ calls[c].pc = "open"
    /\ calls' = [calls EXCEPT ![c].pc = "done", ![c].ret = ErrorOf("open")]
    /\ UNCHANGED <<habits, target, tmp, dir, store, issued>>

\* writeFile fails in a write: what was written stays in the temp file
WriteFails(c) ==
    /\ calls[c].pc = "write"
    /\ calls' = [calls EXCEPT ![c].pc = "done", ![c].fd = "none",
                              ![c].ret = ErrorOf("write")]
    /\ UNCHANGED <<habits, target, tmp, dir, store, issued>>

\* a save that catches the error of rename and returns as if it had saved
RenameFailsSwallowed(c) ==
    /\ calls[c].pc = "rename"
    /\ calls' = [calls EXCEPT ![c].pc = "done"]
    /\ UNCHANGED <<habits, target, tmp, dir, store, issued>>

RenameFails(c) ==
    /\ calls[c].pc = "rename"
    /\ calls' = [calls EXCEPT ![c].pc = "done", ![c].ret = ErrorOf("rename")]
    /\ UNCHANGED <<habits, target, tmp, dir, store, issued>>

(***************************************************************************)
(* HabitStore.create: constructor, then load()                             *)
(***************************************************************************)
FilePath == "habits.json"
Corrupt(why) == Thrown(<<"Corrupt data file at ", FilePath, why>>)

\* reading a property of null
TypeError == Thrown(<<"TypeError: Cannot read properties of null (reading 'habits')">>)

\* what load() makes of the file at the target path
Loaded(file) ==
    IF ~file.exists THEN [ok |-> TRUE, habits |-> <<>>]
    ELSE LET data == JsonParse(file.data)
         IN IF ~data.ok
            THEN [ok |-> FALSE, err |-> Corrupt(": invalid JSON")]
            ELSE IF data.v = JsonNull
            THEN [ok |-> FALSE, err |-> TypeError]
            ELSE IF ~IsArray(Property(data.v, "habits"))
            THEN [ok |-> FALSE, err |-> Corrupt(": \"habits\" must be an array")]
            ELSE [ok |-> TRUE, habits |-> MapFrom(Property(data.v, "habits").items)]

\* a load that writes an empty document where it finds no file
LoadCreatesFile ==
    /\ store.pc = "new"
    /\ LET r == Loaded(target)
       IN IF r.ok
          THEN /\ habits' = r.habits
               /\ store' = [pc |-> "ready"]
               /\ target' = IF target.exists THEN target ELSE File(Stringify(<<>>))
               /\ dir' = TRUE
          ELSE /\ store' = [pc |-> "failed", err |-> r.err]
               /\ UNCHANGED <<habits, target, dir>>
    /\ UNCHANGED <<tmp, calls, issued>>

Load ==
    /\ store.pc = "new"
    /\ LET r == Loaded(target)
       IN IF r.ok
          THEN /\ habits' = r.habits
               /\ store' = [pc |-> "ready"]
          ELSE /\ store' = [pc |-> "failed", err |-> r.err]
               /\ UNCHANGED habits
    /\ UNCHANGED <<target, tmp, dir, calls, issued>>

(***************************************************************************)
(* Inputs                                                                  *)
(***************************************************************************)
\* what the callers pass: {name, frequency} alone, and every optional field
AddAttrs ==
    {[name |-> "Run", frequency |-> "daily"]}
    \cup {[id |-> i, name |-> "Swim", frequency |-> "weekly",
           completions |-> <<"d1", "d1">>, createdAt |-> OtherTime,
           description |-> "note"] : i \in KnownIds}

Patches ==
    {<<>>,
     [name |-> "Swim", frequency |-> "weekly"],
     [description |-> Undefined],
     [completions |-> <<"d1", "d1">>]}
    \cup {[id |-> i, createdAt |-> OtherTime] : i \in CallerIds}

OldHabit(n, f, cs) ==
    [id |-> "a", name |-> n, frequency |-> f, completions |-> cs,
     createdAt |-> OtherTime]

\* what an earlier run, or anything else, left at the target path
InitialFiles ==
    {NoFile,
     File(Stringify(<<OldHabit("Run", "daily", <<"d2">>)>>)),
     File(Stringify(<<OldHabit("Run", "daily", <<>>),
                      OldHabit("Swim", "weekly", <<"d1">>)>>)),
     File(<<[t |-> "not-json"]>>),
     File(<<Open>>),
     File(<<>>),
     File(JsonText(JsonNull)),
     File(JsonText(JsonNumber)),
     File(JsonText(JsonString)),
     File(JsonText(JsonArray(<<>>))),
     File(JsonText(JsonObject(<<>>))),
     File(JsonText(JsonObject([habits |-> JsonString])))}

(***************************************************************************)
(* Specification: one store, every call awaited, storage never fails       *)
(***************************************************************************)
Init ==
    /\ habits = <<>>
    /\ store = [pc |-> "new"]
    /\ calls = [c \in Calls |-> Idle]
    /\ issued = 0
    /\ tmp = NoFile
    /\ target \in InitialFiles
    /\ dir \in IF target.exists THEN {TRUE} ELSE BOOLEAN

Next ==
    \/ Load
    \/ \E c \in Calls : \E attrs \in AddAttrs : Awaited /\ AddHabit(c, attrs)
    \/ \E c \in Calls : \E id \in KnownIds : Awaited /\ GetHabit(c, id)
    \/ \E c \in Calls : Awaited /\ GetAllHabits(c)
    \/ \E c \in Calls : \E id \in KnownIds : \E patch \in Patches :
         Awaited /\ UpdateHabit(c, id, patch)
    \/ \E c \in Calls : \E id \in KnownIds : Awaited /\ DeleteHabit(c, id)
    \/ \E c \in Calls : \E id \in KnownIds : \E date \in Dates :
         Awaited /\ LogCompletion(c, id, date)
    \/ \E c \in Calls : Mkdir(c)
    \/ \E c \in Calls : OpenTmp(c)
    \/ \E c \in Calls : WriteTmp(c)
    \/ \E c \in Calls : Rename(c)
    \/ \E c \in Calls : Return(c)

Spec == Init /\ [][Next]_vars

(***************************************************************************)
(* Specification with crashes: the process may die between any two steps   *)
(* (a short write followed by a crash is a crash during the write); what   *)
(* is on disk stays, memory and the calls in flight are lost, and the next *)
(* run creates its store on the same path.                                 *)
(***************************************************************************)
Crash ==
    /\ store.pc # "new"
    /\ habits' = <<>>
    /\ calls' = [c \in Calls |-> Idle]
    /\ store' = [pc |-> "new"]
    /\ UNCHANGED <<target, tmp, dir, issued>>

InitCrash ==
    /\ Init
    /\ ~target.exists \/ IsDocument(target.data)

\* save() does not look at the operation that called it: the documents of
\* this specification come from addHabit, deleteHabit and logCompletion
NextCrash ==
    \/ Load
    \/ \E c \in Calls : \E attrs \in AddAttrs : Awaited /\ AddHabit(c, attrs)
    \/ \E c \in Calls : \E id \in KnownIds : Awaited /\ DeleteHabit(c, id)
    \/ \E c \in Calls : \E id \in KnownIds : \E date \in Dates :
         Awaited /\ LogCompletion(c, id, date)
    \/ \E c \in Calls : Mkdir(c)
    \/ \E c \in Calls : OpenTmp(c)
    \/ \E c \in Calls : WriteTmp(c)
    \/ \E c \in Calls : Rename(c)
    \/ \E c \in Calls : Return(c)
    \/ Crash

SpecCrash == InitCrash /\ [][NextCrash]_vars

(***************************************************************************)
(* Specification with storage failures: every call awaited, each step of   *)
(* save() may fail; the store starts on a path with no file or with one    *)
(* document.                                                               *)
(***************************************************************************)
InitFail ==
    /\ Init
    /\ ~target.exists \/ (IsDocument(target.data) /\ Len(target.data) = 3)

FailAttrs == {[name |-> "Run", frequency |-> "daily"]}
FailPatches == {[name |-> "Swim", frequency |-> "weekly"]}

NextFail ==
    \/ Load
    \/ \E c \in Calls : \E attrs \in FailAttrs : Awaited /\ AddHabit(c, attrs)
    \/ \E c \in Calls : \E id \in KnownIds : \E patch \in FailPatches :
         Awaited /\ UpdateHabit(c, id, patch)
    \/ \E c \in Calls : \E id \in KnownIds : Awaited /\ DeleteHabit(c, id)
    \/ \E c \in Calls : \E id \in KnownIds : \E date \in Dates :
         Awaited /\ LogCompletion(c, id, date)
    \/ \E c \in Calls : Mkdir(c)
    \/ \E c \in Calls : MkdirFails(c)
    \/ \E c \in Calls : OpenTmp(c)
    \/ \E c \in Calls : OpenFails(c)
    \/ \E c \in Calls : WriteTmp(c)
    \/ \E c \in Calls : WriteFails(c)
    \/ \E c \in Calls : Rename(c)
    \/ \E c \in Calls : RenameFails(c)
    \/ \E c \in Calls : Return(c)

SpecFail == InitFail /\ [][NextFail]_vars

(***************************************************************************)
(* Specification with unawaited calls: the caller issues up to MaxCalls    *)
(* calls without awaiting any of them, and the steps of their saves        *)
(* interleave in every order the event loop and the file system allow.     *)
(* The slots are taken in order and not reused: slot c holds the c-th call *)
(* issued.  The store starts on a document of one record.                  *)
(***************************************************************************)
RaceFile == File(Stringify(<<OldHabit("Run", "daily", <<"d2">>)>>))

InitRace ==
    /\ Init
    /\ target = RaceFile

RacePatches ==
    {[name |-> "Swim", frequency |-> "weekly"], [completions |-> <<>>]}

NextRace ==
    \/ Load
    \/ \E c \in Calls : \E attrs \in AddAttrs : AddHabit(c, attrs)
    \/ \E c \in Calls : \E id \in KnownIds : GetHabit(c, id)
    \/ \E c \in Calls : GetAllHabits(c)
    \/ \E c \in Calls : \E id \in KnownIds : \E patch \in RacePatches :
         UpdateHabit(c, id, patch)
    \/ \E c \in Calls : \E id \in KnownIds : DeleteHabit(c, id)
    \/ \E c \in Calls : \E id \in KnownIds : \E date \in Dates :
         LogCompletion(c, id, date)
    \/ \E c \in Calls : Mkdir(c)
    \/ \E c \in Calls : OpenTmp(c)
    \/ \E c \in Calls : WriteTmp(c)
    \/ \E c \in Calls : Rename(c)

SpecRace == InitRace /\ [][NextRace]_vars

(***************************************************************************)
(* Specification of addHabit alone: every call awaited, storage never      *)
(* fails, the caller passes ids of its own, with and without the optional  *)
(* fields.                                                                 *)
(***************************************************************************)
ReplaceAttrs ==
    AddAttrs \cup {[id |-> i, name |-> "Read", frequency |-> "custom"] : i \in KnownIds}

NextAdd ==
    \/ Load
    \/ \E c \in Calls : \E attrs \in ReplaceAttrs : Awaited /\ AddHabit(c, attrs)
    \/ \E c \in Calls : Mkdir(c)
    \/ \E c \in Calls : OpenTmp(c)
    \/ \E c \in Calls : WriteTmp(c)
    \/ \E c \in Calls : Rename(c)
    \/ \E c \in Calls : Return(c)

SpecAdd == Init /\ [][NextAdd]_vars

Keys == {"id", "name", "description", "frequency", "completions", "createdAt"}

TypeOK ==
    /\ store.pc \in {"new", "ready", "failed"}
    /\ target.exists \in BOOLEAN
    /\ tmp.exists \in BOOLEAN
    /\ dir \in BOOLEAN
    /\ issued \in 0..MaxUuid
    /\ Len(habits) <= MaxHabits
    /\ \A i, j \in 1..Len(habits) : habits[i].id = habits[j].id => i = j
    /\ \A i \in 1..Len(habits) :
         /\ Keys \ {"description"} \subseteq DOMAIN habits[i]
         /\ DOMAIN habits[i] \subseteq Keys
         /\ habits[i].frequency \in Frequencies
    /\ \A c \in Calls :
         calls[c].pc \in {"idle", "mkdir", "open", "write", "rename", "done"}

(***************************************************************************)
(* Vocabulary of the properties                                            *)
(***************************************************************************)
\* the two records read the same, field by field
SameFields(g, h) == \A k \in Keys : Get(g, k) = Get(h, k)
SameMap(m, n) ==
    /\ Len(m) = Len(n)
    /\ \A i \in 1..Len(m) : SameFields(m[i], n[i])
\* what HabitStore.create(filePath) would hold now
Fresh == Loaded(target)
NoneInFlight == \A c \in Calls : calls[c].pc \in {"idle", "done"}
Returned(c, op) == calls[c].pc = "done" /\ calls[c].op = op
\* the step in which call c is issued, and the one in which it is handed back
Issues(c, op) == calls[c].pc = "idle" /\ calls'[c].pc # "idle" /\ calls'[c].op = op
Returns(c) == calls[c].pc = "done" /\ calls'[c].pc = "idle"
Count(s, x) == Cardinality({i \in 1..Len(s) : s[i] = x})
NoDuplicates(s) == \A i, j \in 1..Len(s) : s[i] = s[j] => i = j

\* C1: with every call awaited and no storage failure, whenever a call has
\* returned the document at the target path decodes to the records held in
\* memory: same ids, same field values, same order, so a fresh store on the
\* path holds an equal mapping.
C1_RoundTrip ==
    (Ready /\ NoneInFlight) => Fresh.ok /\ SameMap(Fresh.habits, habits)

\* a save has completed with two records in memory, one of them holding an
\* explicit undefined that the document leaves out
C1_Witness ==
    /\ \E c \in Calls : calls[c].pc = "done" /\ calls[c].saved
    /\ Len(habits) = 2
    /\ \E i \in 1..Len(habits) :
         Has(habits[i], "description") /\ habits[i].description = Undefined

TargetComplete == ~target.exists \/ IsDocument(target.data)
TargetStep ==
    target' # target =>
      \E c \in Calls :
        /\ calls[c].pc = "rename"
        /\ calls'[c].pc = "done"
        /\ target' = File(calls[c].json)
CrashStep == store.pc # "new" /\ store'.pc = "new"
\* C2: atomic save: with a crash allowed between or during the steps mkdir,
\* temp write and rename, the target path is at every moment absent or holds
\* one complete document that a save serialized; a crash after the temp
\* write started and before the rename leaves the target as it was.
C2_AtomicSave ==
    []TargetComplete /\ [][TargetStep /\ (CrashStep => target' = target)]_vars

\* the process died in the middle of the temp write: the temp file holds a
\* piece of a document, the target the previous whole one
C2_Witness ==
    /\ store.pc = "new"
    /\ tmp.exists
    /\ tmp.data # <<>>
    /\ ~IsDocument(tmp.data)
    /\ target.exists
    /\ IsDocument(target.data)
    /\ Len(target.data) > 2

LoggedOnce ==
    \A c \in Calls :
      (Returned(c, "logCompletion") /\ calls[c].ret = RetVoid) =>
        Count(MapGet(habits, calls[c].args.id).completions, calls[c].args.date) = 1
RepeatedLogIsNoOp ==
    \A c \in Calls :
      (/\ Issues(c, "logCompletion")
       /\ MapHas(habits, calls'[c].args.id)
       /\ Includes(MapGet(habits, calls'[c].args.id).completions, calls'[c].args.date))
      => /\ calls'[c].pc = "done"
         /\ calls'[c].ret = RetVoid
         /\ ~calls'[c].saved
         /\ UNCHANGED <<habits, target, tmp>>
\* C3: logCompletion is idempotent: once logCompletion(id, d) has returned
\* for an existing id, d appears exactly once in that habit's completions (so
\* also after the second of two such calls), and a call that finds d present
\* starts no save (no temp write, no rename) and changes neither memory nor
\* the target file.
C3_Idempotent == []LoggedOnce /\ [][RepeatedLogIsNoOp]_vars

\* C4: in every reachable state no habit of the in-memory mapping holds a
\* date twice in its completions.
C4_NoDuplicateCompletions ==
    \A i \in 1..Len(habits) : NoDuplicates(habits[i].completions)

\* C5: updateHabit leaves the record's id and its createdAt as they were,
\* whatever the patch carries.
C5_IdAndCreatedAtKept ==
    \A c \in Calls :
      (Returned(c, "updateHabit") /\ calls[c].ret.kind = "habit") =>
        LET existing == calls[c].local.existing
            now == MapGet(habits, calls[c].args.id)
        IN /\ now.id = existing.id
           /\ now.createdAt = existing.createdAt

\* C6: updateHabit on a known id returns a record in which every field the
\* patch names has the patched value, every other field its previous value
\* and id the original id; getHabit(id) returns that record afterwards and
\* a fresh store on the same path holds it under that id.
C6_UpdateMerges ==
    \A c \in Calls :
      (Returned(c, "updateHabit") /\ calls[c].ret.kind = "habit") =>
        LET id == calls[c].args.id
            patch == calls[c].args.patch
            existing == calls[c].local.existing
            updated == calls[c].ret.v
        IN /\ \A k \in Keys \ {"id"} :
                Get(updated, k) = IF Has(patch, k) THEN patch[k] ELSE Get(existing, k)
           /\ updated.id = id
           /\ existing.id = id
           /\ MapHas(habits, id)
           /\ MapGet(habits, id) = updated
           /\ Fresh.ok
           /\ MapHas(Fresh.habits, id)
           /\ SameFields(MapGet(Fresh.habits, id), updated)

\* an update that named some fields and not others has returned, with another
\* record in the store
C6_Witness ==
    \E c \in Calls :
      /\ Returned(c, "updateHabit")
      /\ calls[c].ret.kind = "habit"
      /\ Has(calls[c].args.patch, "name")
      /\ calls[c].local.existing.name # calls[c].args.patch.name
      /\ calls[c].local.existing.completions # <<>>
      /\ Len(habits) = 2

UnknownIdRejected ==
    \A c \in Calls :
      /\ ((Issues(c, "updateHabit") \/ Issues(c, "logCompletion"))
          /\ ~MapHas(habits, calls'[c].args.id))
         => /\ calls'[c].pc = "done"
            /\ calls'[c].ret = Thrown(<<"Habit not found: ", calls'[c].args.id>>)
            /\ ~calls'[c].saved
            /\ UNCHANGED <<habits, target, tmp>>
      /\ (Issues(c, "getHabit") /\ ~MapHas(habits, calls'[c].args.id))
         => /\ calls'[c].pc = "done"
            /\ calls'[c].ret = RetUndefined
            /\ UNCHANGED <<habits, target, tmp>>
      /\ (Returns(c) /\ ~calls[c].saved) => UNCHANGED <<habits, target, tmp>>
\* C7: updateHabit and logCompletion on an id absent from the mapping fail
\* with "Habit not found", start no save and leave the mapping, the target
\* file and the temp path as they were; getHabit on an absent id returns the
\* not-found value and raises nothing.
C7_NotFound == [][UnknownIdRejected]_vars

\* an update, and a log, of an id the store does not hold have failed while
\* the store holds another record
C7_Witness ==
    \E c \in Calls :
      /\ calls[c].pc = "done"
      /\ calls[c].op \in {"updateHabit", "logCompletion"}
      /\ calls[c].ret.kind = "error"
      /\ habits # <<>>
      /\ target.exists

DeleteStep ==
    \A c \in Calls :
      /\ Issues(c, "deleteHabit") =>
           LET id == calls'[c].args.id
           IN IF MapHas(habits, id)
              THEN /\ calls'[c].ret = RetBool(TRUE)
                   /\ habits' = SelectSeq(habits, LAMBDA h : h.id # id)
                   /\ Len(habits') = Len(habits) - 1
              ELSE /\ calls'[c].ret = RetBool(FALSE)
                   /\ calls'[c].pc = "done"
                   /\ ~calls'[c].saved
                   /\ UNCHANGED <<habits, target, tmp>>
      /\ \A id \in MapIds(habits') \ MapIds(habits) :
           \/ store.pc = "new"
           \/ \E d \in Calls : Issues(d, "addHabit") /\ calls'[d].ret.v.id = id
Deleted ==
    \A c \in Calls :
      (Returned(c, "deleteHabit") /\ calls[c].ret = RetBool(TRUE)) =>
        /\ ~MapHas(habits, calls[c].args.id)
        /\ Fresh.ok
        /\ ~MapHas(Fresh.habits, calls[c].args.id)
        /\ SameMap(Fresh.habits, habits)
\* C8: deleteHabit on an existing id returns true and removes the id from
\* memory and from the persisted document, leaving every other record as it
\* was; on an absent id it returns false and changes neither memory nor disk,
\* and an id once deleted stays absent until an addHabit of that id.
C8_Delete == []Deleted /\ [][DeleteStep]_vars

\* a delete has returned true and left the other record in memory and on disk
C8_Witness ==
    \E c \in Calls :
      /\ Returned(c, "deleteHabit")
      /\ calls[c].ret = RetBool(TRUE)
      /\ Len(habits) = 1
      /\ Len(Fresh.habits) = 1

OnlyNameAndFrequency(attrs) == DOMAIN attrs = {"name", "frequency"}
AddStep ==
    \A c \in Calls :
      (Issues(c, "addHabit") /\ OnlyNameAndFrequency(calls'[c].args)) =>
        LET habit == calls'[c].ret.v
        IN /\ habit.id \notin MapIds(habits)
           /\ habit.name = calls'[c].args.name
           /\ habit.frequency = calls'[c].args.frequency
           /\ habit.completions = <<>>
           /\ Has(habit, "createdAt") /\ habit.createdAt = Now
           /\ ~Has(habit, "description")
           /\ habits' = Append(habits, habit)
Added ==
    \A c \in Calls :
      (Returned(c, "addHabit") /\ OnlyNameAndFrequency(calls[c].args)) =>
        /\ MapHas(habits, calls[c].ret.v.id)
        /\ MapGet(habits, calls[c].ret.v.id) = calls[c].ret.v
        /\ Fresh.ok
        /\ SameMap(Fresh.habits, habits)
        /\ Fresh.habits[Len(Fresh.habits)] = calls[c].ret.v
\* C9: given name and frequency alone, addHabit returns a record with a
\* generated id that no record of the mapping had, empty completions and a
\* createdAt; the record is in the mapping when the call returns, and a fresh
\* store on the same path holds that record after the ones held before.
C9_AddGenerates == []Added /\ [][AddStep]_vars

\* an add of {name, frequency} has returned in a store that held a record
C9_Witness ==
    \E c \in Calls :
      /\ Returned(c, "addHabit")
      /\ OnlyNameAndFrequency(calls[c].args)
      /\ Len(habits) = 2
      /\ Len(Fresh.habits) = 2

LoadsStep == store.pc = "new" /\ store'.pc # "new"
Mutating == {"addHabit", "updateHabit", "deleteHabit", "logCompletion"}
FirstRunStep ==
    /\ (LoadsStep /\ ~target.exists)
       => /\ store'.pc = "ready"
          /\ habits' = <<>>
          /\ UNCHANGED <<target, tmp, dir>>
    /\ (~target.exists /\ target'.exists)
       => \E c \in Calls :
            /\ calls[c].pc = "rename"
            /\ calls'[c].pc = "done"
            /\ calls[c].op \in Mutating
    /\ (~tmp.exists /\ tmp'.exists)
       => \E c \in Calls :
            /\ calls[c].pc = "open"
            /\ calls[c].op \in Mutating
\* C10: create (load) on a path with no file succeeds with an empty mapping
\* and creates neither the target file nor the temp file; the target first
\* appears when the save of a mutating operation renames onto it.
C10_LoadCreatesNothing == [][FirstRunStep]_vars

\* a store created where no file was: empty, ready, and still no file
C10_Witness ==
    /\ Ready
    /\ habits = <<>>
    /\ ~target.exists
    /\ ~tmp.exists
    /\ ~dir

\* the two messages load() gives a file it cannot use
CorruptErrors ==
    {Corrupt(": invalid JSON"), Corrupt(": \"habits\" must be an array")}
\* C11: whenever the file at the target path exists and is not a document of
\* habits (text that does not parse; null, a number, a string, an array, an
\* object without habits, an object whose habits is not an array), load has
\* failed with a "Corrupt data file" error that names the file path, and with
\* no other error.
C11_CorruptFile ==
    (store.pc # "new" /\ target.exists /\ ~IsDocument(target.data)) =>
      /\ store.pc = "failed"
      /\ store.err \in CorruptErrors
      /\ store.err.msg[2] = FilePath

\* the call has run save() to its end without an error
SaveCompleted(c) ==
    calls[c].pc = "done" /\ calls[c].saved /\ calls[c].ret.kind # "error"
\* C12: whenever a save has completed (mkdir, temp write and rename all
\* succeeded) no file exists at the temp path; with awaited calls a file
\* exists at the temp path only inside a save, from the start of its write to
\* its rename.
C12_NoTmpLeft ==
    /\ \A c \in Calls : SaveCompleted(c) => ~tmp.exists /\ target = File(calls[c].json)
    /\ tmp.exists => \E c \in Calls : calls[c].saved /\ calls[c].pc \in {"write", "rename"}

\* the save of a logCompletion has completed with two records in the
\* document, and the temp path is free
C12_Witness ==
    \E c \in Calls :
      /\ SaveCompleted(c)
      /\ calls[c].op = "logCompletion"
      /\ Len(calls[c].json) = 4
      /\ ~tmp.exists

\* memory h and the document in file hold the same records
InSync(file, h) == Loaded(file).ok /\ SameMap(Loaded(file).habits, h)
Sync == InSync(target, habits)
InSave == {"mkdir", "open", "write", "rename"}
\* the step in which the save of call c fails
SaveFails(c) ==
    calls[c].pc \in InSave /\ calls'[c].pc = "done" /\ calls'[c].ret.kind = "error"
\* the step in which the save of call c publishes its document
SavePublishes(c) ==
    calls[c].pc = "rename" /\ calls'[c].pc = "done" /\ calls'[c].ret.kind # "error"
SaveFailed(c) ==
    calls[c].pc = "done" /\ calls[c].saved /\ calls[c].ret.kind = "error"
FailureStep ==
    /\ \A c \in Calls :
         SaveFails(c) =>
           /\ calls'[c].ret = StorageError(
                  IF calls[c].pc = "mkdir" THEN "EACCES"
                  ELSE IF calls[c].pc = "open" THEN "EROFS"
                  ELSE IF calls[c].pc = "write" THEN "ENOSPC" ELSE "EPERM")
           /\ UNCHANGED <<habits, target>>
    /\ \A c \in Calls : SaveFailed(c) => calls'[c].pc \in {"done", "idle"}
    /\ target' # target =>
         \E c \in Calls : SavePublishes(c) /\ target' = File(calls[c].json)
    /\ (Ready /\ <<habits, target>>' # <<habits, target>>
          /\ ~Sync /\ InSync(target', habits')) =>
         \/ \E c \in Calls : SavePublishes(c)
         \/ \E c \in Calls : \E op \in Mutating : Issues(c, op)
MutationKept ==
    \A c \in Calls :
      SaveFailed(c) =>
        LET id == IF Has(calls[c].args, "id") THEN calls[c].args.id ELSE Uuid(issued)
        IN /\ calls[c].op = "addHabit" =>
                /\ MapHas(habits, id)
                /\ MapGet(habits, id).name = calls[c].args.name
                /\ MapGet(habits, id).frequency = calls[c].args.frequency
           /\ calls[c].op = "updateHabit" =>
                /\ MapHas(habits, id)
                /\ \A k \in DOMAIN calls[c].args.patch \ {"id"} :
                     Get(MapGet(habits, id), k) = calls[c].args.patch[k]
           /\ calls[c].op = "deleteHabit" => ~MapHas(habits, id)
           /\ calls[c].op = "logCompletion" =>
                /\ MapHas(habits, id)
                /\ Includes(MapGet(habits, id).completions, calls[c].args.date)
Resynced == \A c \in Calls : SaveCompleted(c) => Sync
LastSaved(d) == calls[d].pc # "idle" /\ calls[d].saved /\
    \A e \in Calls : (e > d /\ calls[e].pc # "idle") => ~calls[e].saved
\* calls c and d, c issued first, have both run their saves to the end and
\* the target holds the document of c, which is not the document of d
Overwritten(c, d) ==
    /\ c < d
    /\ SaveCompleted(c)
    /\ SaveCompleted(d)
    /\ target = File(calls[c].json)
    /\ calls[c].json # calls[d].json
\* C14: unawaited calls race: when two mutating calls have both finished
\* their saves and the target holds the snapshot of the one issued first
\* (its rename came last, so the two saves overlapped), the mutation of the
\* one issued later is in memory and missing from the document; such a state
\* is reached.
C14_LostOnDisk ==
    \A c, d \in Calls :
      (NoneInFlight /\ Overwritten(c, d) /\ LastSaved(d)) =>
        /\ SameMap(ParseHabits(calls[d].json), habits)
        /\ Fresh.ok
        /\ SameMap(Fresh.habits, ParseHabits(calls[c].json))
        /\ ~SameMap(Fresh.habits, habits)

\* an add and then a logCompletion, not awaited: both have finished, the
\* date is in memory, and the document is the one the add serialized
C14_Witness ==
    \E c, d \in Calls :
      /\ NoneInFlight
      /\ Overwritten(c, d)
      /\ calls[c].op = "addHabit"
      /\ calls[d].op = "logCompletion"
      /\ Includes(MapGet(habits, calls[d].args.id).completions, calls[d].args.date)
      /\ ~Includes(MapGet(Fresh.habits, calls[d].args.id).completions, calls[d].args.date)

\* the ids of a mapping in the order it enumerates them
Order(m) == [i \in 1..Len(m) |-> m[i].id]
OrderStep ==
    \A c \in Calls :
      /\ Issues(c, "addHabit") =>
           LET id == calls'[c].ret.v.id
           IN Order(habits') =
                IF MapHas(habits, id) THEN Order(habits) ELSE Append(Order(habits), id)
      /\ (Issues(c, "updateHabit") \/ Issues(c, "logCompletion")) =>
           Order(habits') = Order(habits)
      /\ Issues(c, "deleteHabit") =>
           Order(habits') = SelectSeq(Order(habits), LAMBDA i : i # calls'[c].args.id)
      /\ Issues(c, "getAllHabits") =>
           /\ calls'[c].ret = RetList(habits)
           /\ ~calls'[c].saved
           /\ UNCHANGED <<habits, target, tmp>>
      /\ Issues(c, "getHabit") =>
           /\ ~calls'[c].saved
           /\ UNCHANGED <<habits, target, tmp>>
SameOrder ==
    /\ (Ready /\ NoneInFlight) => Fresh.ok /\ Order(Fresh.habits) = Order(habits)
    /\ \A c \in Calls :
         Returned(c, "getAllHabits") => Order(calls[c].ret.v) = Order(habits)
Alone(st, call) ==
    LET m == st.m
        id == call.args.id
    IN IF call.op = "addHabit"
       THEN [m |-> MapSet(m, NewHabit(call.args, Uuid(st.n + 1))),
             n |-> IF Has(call.args, "id") THEN st.n ELSE st.n + 1]
       ELSE IF call.op = "updateHabit" /\ MapHas(m, id)
       THEN [st EXCEPT !.m = MapSet(m, Updated(MapGet(m, id), call.args.patch, id))]
       ELSE IF call.op = "deleteHabit"
       THEN [st EXCEPT !.m = MapDelete(m, id)]
       ELSE IF call.op = "logCompletion" /\ MapHas(m, id)
                /\ ~Includes(MapGet(m, id).completions, call.args.date)
       THEN [st EXCEPT !.m = MapSet(m, Pushed(MapGet(m, id), call.args.date))]
       ELSE st

RECURSIVE Sequential(_)
\* the first k calls issued, each run alone and awaited, in issue order
Sequential(k) ==
    IF k = 0 THEN [m |-> Loaded(RaceFile).habits, n |-> 0]
    ELSE Alone(Sequential(k - 1), calls[k])

NumIssued == Cardinality({c \in Calls : ~IsIdle(c)})
\* C16: every operation applies its whole change to memory before its first
\* await, so with calls issued unawaited and the steps of their saves
\* interleaved in any order, the mapping in memory is at every moment the
\* one obtained by running the calls issued so far one after the other in
\* issue order, whatever has reached the disk.
C16_MemorySequential ==
    Ready => habits = Sequential(NumIssued).m

\* two saves are in flight, the file holds neither document yet, and memory
\* already holds both mutations
C16_Witness ==
    /\ \A c \in Calls : calls[c].pc \in {"mkdir", "open", "write", "rename"}
    /\ calls[1].op = "deleteHabit"
    /\ calls[MaxCalls].op = "addHabit"
    /\ target = RaceFile
    /\ Order(habits) = <<Uuid(1)>>

\* a save is still writing into the file that now sits at the target path
WritingPublished(c) == calls[c].pc = "write" /\ calls[c].fd = "target"
\* C17: with two saves of one store in flight on the one temp path, the
\* target path still holds a whole document at every moment: no rename
\* publishes a temp file that another save has opened and not finished
\* writing.
C17_NoPartialTarget ==
    /\ target.exists => IsDocument(target.data)
    /\ \A c \in Calls : ~WritingPublished(c)

\* date d is among the completions of habit id in mapping m
Logged(m, id, d) == MapHas(m, id) /\ Includes(MapGet(m, id).completions, d)
\* ... in the document held by file
OnDisk(file, id, d) == Loaded(file).ok /\ Logged(Loaded(file).habits, id, d)
LogFailureStep ==
    /\ \A c \in Calls :
         (SaveFails(c) /\ calls[c].op = "logCompletion") =>
           /\ UNCHANGED <<habits, target>>
           /\ Logged(habits', calls[c].args.id, calls[c].args.date)
    /\ RepeatedLogIsNoOp
    /\ \A id \in KnownIds : \A d \in Dates :
         (target' # target /\ ~OnDisk(target, id, d) /\ OnDisk(target', id, d)) =>
           \E c \in Calls :
             /\ SavePublishes(c)
             /\ target' = File(calls[c].json)
             /\ Logged(habits, id, d)
SavedLogsOnDisk ==
    \A c \in Calls :
      SaveCompleted(c) =>
        \A id \in KnownIds : \A d \in Dates :
          Logged(habits, id, d) => OnDisk(target, id, d)
\* C18: when the save inside logCompletion(id, d) fails, d stays in the
\* completions in memory; a logCompletion(id, d) that finds d present returns
\* without error and starts no save, so its return does not tell that d is in
\* the document; d gets into the document only in the rename of a save that
\* succeeds, and every save that succeeds carries the dates in memory to it.
C18_FailedLogStays == []SavedLogsOnDisk /\ [][LogFailureStep]_vars

\* logCompletion has returned without error and without a save for a date
\* that is in memory, while the document holds the habit without the date
C18_Witness ==
    \E c \in Calls :
      /\ Returned(c, "logCompletion")
      /\ calls[c].ret = RetVoid
      /\ ~calls[c].saved
      /\ Logged(habits, calls[c].args.id, calls[c].args.date)
      /\ Fresh.ok
      /\ MapHas(Fresh.habits, calls[c].args.id)
      /\ ~OnDisk(target, calls[c].args.id, calls[c].args.date)

ReplaceStep ==
    \A c \in Calls :
      (/\ Issues(c, "addHabit")
       /\ Has(calls'[c].args, "id")
       /\ MapHas(habits, calls'[c].args.id)) =>
        LET attrs == calls'[c].args
            i == MapIndex(habits, attrs.id)
        IN /\ calls'[c].ret.kind = "habit"
           /\ calls'[c].saved
           /\ Len(habits') = Len(habits)
           /\ Order(habits') = Order(habits)
           /\ \A j \in 1..Len(habits) : j # i => habits'[j] = habits[j]
           /\ habits'[i] = calls'[c].ret.v
           /\ habits'[i].id = attrs.id
           /\ habits'[i].name = attrs.name
           /\ habits'[i].frequency = attrs.frequency
           /\ habits'[i].completions =
                IF Has(attrs, "completions") THEN attrs.completions ELSE <<>>
           /\ habits'[i].createdAt =
                IF Has(attrs, "createdAt") THEN attrs.createdAt ELSE Now
           /\ Get(habits'[i], "description") = Get(attrs, "description")
UniqueIds(m) == \A i, j \in 1..Len(m) : m[i].id = m[j].id => i = j
ReplacementPersisted ==
    /\ UniqueIds(habits)
    /\ \A c \in Calls :
         (Returned(c, "addHabit") /\ Has(calls[c].args, "id")) =>
           /\ Fresh.ok
           /\ Len(Fresh.habits) = Len(habits)
           /\ UniqueIds(Fresh.habits)
           /\ MapHas(Fresh.habits, calls[c].args.id)
           /\ SameFields(MapGet(Fresh.habits, calls[c].args.id), calls[c].ret.v)
\* C19: addHabit with an id the mapping already holds does not fail and adds
\* no record: the record under that id is replaced in its place by the new
\* one (name, frequency, completions, createdAt and description are those of
\* the new record, nothing of the old one is kept), the other records and the
\* number of records stay, the ids stay unique, and the document holds the
\* replacement when the call returns.
C19_AddReplaces == []ReplacementPersisted /\ [][ReplaceStep]_vars

\* an add of id "a" with neither description nor completions has returned;
\* "a" stands before the record the store added under a generated id, so it
\* was in the mapping when this call came
C19_Witness ==
    \E c \in Calls :
      /\ Returned(c, "addHabit")
      /\ Has(calls[c].args, "id")
      /\ calls[c].args.id = "a"
      /\ ~Has(calls[c].args, "description")
      /\ Order(habits) = <<"a", Uuid(1)>>
      /\ habits[1] = calls[c].ret.v
      /\ Order(Fresh.habits) = <<"a", Uuid(1)>>

====
